---- MODULE Spec2Model ----
(***************************************************************************)
(* dbless: a key-value facade over named tables, backed either by a redb   *)
(* file (store/redb.rs) or by an in-process HashMap (store/memory.rs).     *)
(* The model keeps the contents of the backend, the Database's default     *)
(* table name and a record of the last operation with its result.          *)
(***************************************************************************)
EXTENDS Integers, Sequences, FiniteSets, Bags, TLC

(* ---------------------------------------------------------------- bounds *)

\* How many entries the tables of one Database hold together: an insert of
\* a new key is not taken beyond it.
MaxEntries == 2

(* ------------------------------------------------------------ vocabulary *)

DEFAULT_DEFAULT_TABLE == "#_#_main_dbless_table_#_#"

UserTables == {"t1"}

TableNames == UserTables \cup {DEFAULT_DEFAULT_TABLE}

Keys == {"a", "b"}

Types == {"i32", "String", "OptI32", "Unit"}

\* Typed values a caller passes.  p is the payload: the integer of an i32,
\* the character codes of a String, empty for None and (), the integer of a
\* Some.
I32(n) == [t |-> "i32", p |-> <<n>>]

Str(s) == [t |-> "String", p |-> s]

OptNone == [t |-> "OptI32", p |-> <<>>]

OptSome(n) == [t |-> "OptI32", p |-> <<n>>]

UnitVal == [t |-> "Unit", p |-> <<>>]

Values == {I32(30), Str(<<118>>), OptNone, OptSome(30), UnitVal}

NoVal == [t |-> "-", p |-> <<>>]

EmptyMap == [x \in {} |-> <<>>]

Put(m, k, v) == [x \in (DOMAIN m) \cup {k} |-> IF x = k THEN v ELSE m[x]]

Del(m, k) == [x \in (DOMAIN m) \ {k} |-> m[x]]

(* ----------------------------------------------------------------- codec *)

\* MessagePack markers written by rmp_serde.
NIL == 192

FIXSTR == 160

FIXMAP == 128

FIXARRAY == 144

\* A string of fewer than 32 bytes: the fixstr marker and the bytes.
FixStr(s) == <<FIXSTR + Len(s)>> \o s

\* The field names of the structs of tests.rs, as character codes.
NameField == <<110, 97, 109, 101>>

PassField == <<112, 97, 115, 115>>

RoleField == <<114, 111, 108, 101>>

\* enum Role: a unit variant is written as its name.
Admin == <<65, 100, 109, 105, 110>>

Registered == <<82, 101, 103, 105, 115, 116, 101, 114, 101, 100>>

Guest == <<71, 117, 101, 115, 116>>

Role == {Admin, Registered, Guest}

exiting_user_default_role == Registered

\* struct UserV1 { name: String, pass: String } and
\* struct UserV2 { #[serde(rename = "name")] username: String,
\*                 #[serde(default = "exiting_user_default_role")] role: Role }:
\* per field the name on the wire, the type and the declared default.
UserV1Fields ==
    << [wire |-> NameField, ty |-> "String", hasdef |-> FALSE, def |-> <<>>],
       [wire |-> PassField, ty |-> "String", hasdef |-> FALSE, def |-> <<>>] >>

UserV2Fields ==
    << [wire |-> NameField, ty |-> "String", hasdef |-> FALSE, def |-> <<>>],
       [wire |-> RoleField, ty |-> "Role", hasdef |-> TRUE,
        def |-> exiting_user_default_role] >>

StructTypes == {"UserV1", "UserV2"}

FieldsOf(ty) == IF ty = "UserV1" THEN UserV1Fields ELSE UserV2Fields

\* A struct value: p holds the field values in declaration order.
UserV1(name, pass) == [t |-> "UserV1", p |-> <<name, pass>>]

UserV2(username, role) == [t |-> "UserV2", p |-> <<username, role>>]

\* Faulty variant: structs written as arrays of their values, as the
\* serializer does without with_struct_map().
RECURSIVE serialize_fields_compact(_, _, _)
serialize_fields_compact(fields, p, i) ==
    IF i > Len(fields) THEN <<>>
    ELSE FixStr(p[i]) \o serialize_fields_compact(fields, p, i + 1)

\* with_struct_map(): each field as its name followed by its value.
RECURSIVE serialize_fields(_, _, _)
serialize_fields(fields, p, i) ==
    IF i > Len(fields) THEN <<>>
    ELSE FixStr(fields[i].wire) \o FixStr(p[i]) \o serialize_fields(fields, p, i + 1)

\* Faulty variant of serialize: the serializer without with_struct_map().
serialize_compact(v) ==
    CASE v.t = "i32" -> <<v.p[1]>>
      [] v.t = "String" -> <<FIXSTR + Len(v.p)>> \o v.p
      [] v.t = "OptI32" -> IF v.p = <<>> THEN <<NIL>> ELSE <<v.p[1]>>
      [] v.t = "Unit" -> <<NIL>>
      [] v.t \in StructTypes ->
            <<FIXARRAY + Len(FieldsOf(v.t))>>
                \o serialize_fields_compact(FieldsOf(v.t), v.p, 1)

\* serde.rs serialize: integers 0..127 are one positive-fixint byte, strings
\* shorter than 32 bytes a fixstr marker followed by the bytes, None and ()
\* are nil, Some(x) is the encoding of x.
serialize(v) ==
    CASE v.t = "i32" -> <<v.p[1]>>
      [] v.t = "String" -> <<FIXSTR + Len(v.p)>> \o v.p
      [] v.t = "OptI32" -> IF v.p = <<>> THEN <<NIL>> ELSE <<v.p[1]>>
      [] v.t = "Unit" -> <<NIL>>
      [] v.t \in StructTypes ->
            <<FIXMAP + Len(FieldsOf(v.t))>> \o serialize_fields(FieldsOf(v.t), v.p, 1)

Ok(v) == [kind |-> "Ok", val |-> v]

Err == [kind |-> "Err", val |-> NoVal]

\* The number of bytes of the value that starts at pos; 0 for a marker the
\* model does not write.
ValueLen(bytes, pos) ==
    LET b == bytes[pos]
    IN  IF b <= 127 \/ b = NIL THEN 1
        ELSE IF b >= FIXSTR /\ b < FIXSTR + 32 THEN 1 + (b - FIXSTR)
        ELSE 0

Malformed == [ok |-> FALSE, items |-> <<>>]

\* n values from pos on, each as its bytes.
RECURSIVE ParseElems(_, _, _)
ParseElems(bytes, pos, n) ==
    IF n = 0 THEN [ok |-> TRUE, items |-> <<>>]
    ELSE IF pos > Len(bytes) THEN Malformed
    ELSE LET vlen == ValueLen(bytes, pos)
         IN  IF vlen = 0 \/ pos + vlen - 1 > Len(bytes) THEN Malformed
             ELSE LET rest == ParseElems(bytes, pos + vlen, n - 1)
                  IN  IF ~rest.ok THEN Malformed
                      ELSE [ok |-> TRUE,
                            items |-> <<SubSeq(bytes, pos, pos + vlen - 1)>>
                                          \o rest.items]

\* n pairs of a string key and a value from pos on.
RECURSIVE ParsePairs(_, _, _)
ParsePairs(bytes, pos, n) ==
    IF n = 0 THEN [ok |-> TRUE, items |-> <<>>]
    ELSE IF pos > Len(bytes) THEN Malformed
    ELSE LET kb == bytes[pos]
             klen == kb - FIXSTR
             vpos == pos + 1 + klen
         IN  IF ~(kb >= FIXSTR /\ kb < FIXSTR + 32) \/ vpos > Len(bytes)
             THEN Malformed
             ELSE LET vlen == ValueLen(bytes, vpos)
                  IN  IF vlen = 0 \/ vpos + vlen - 1 > Len(bytes) THEN Malformed
                      ELSE LET rest == ParsePairs(bytes, vpos + vlen, n - 1)
                           IN  IF ~rest.ok THEN Malformed
                               ELSE [ok |-> TRUE,
                                     items |->
                                        <<[key |-> SubSeq(bytes, pos + 1, pos + klen),
                                           val |-> SubSeq(bytes, vpos, vpos + vlen - 1)]>>
                                            \o rest.items]

\* A field value of type String or Role from its bytes.
deserialize_field(ty, bytes) ==
    IF ~(bytes[1] >= FIXSTR /\ bytes[1] < FIXSTR + 32) THEN [ok |-> FALSE, val |-> <<>>]
    ELSE LET str == SubSeq(bytes, 2, Len(bytes))
         IN  IF ty = "Role" /\ str \notin Role THEN [ok |-> FALSE, val |-> <<>>]
             ELSE [ok |-> TRUE, val |-> str]

\* The derived Deserialize of a struct.  From a map: each field is looked up
\* by its name on the wire, a key that names no field is ignored, a field
\* without a key takes its declared default or fails.  From an array: the
\* fields are taken in declaration order.
deserialize_struct(ty, bytes) ==
    LET fields == FieldsOf(ty)
        isMap == bytes[1] >= FIXMAP /\ bytes[1] < FIXMAP + 16
        isArr == bytes[1] >= FIXARRAY /\ bytes[1] < FIXARRAY + 16
        pairs == ParsePairs(bytes, 2, bytes[1] - FIXMAP)
        elems == ParseElems(bytes, 2, bytes[1] - FIXARRAY)
        hits(i) == {j \in 1..Len(pairs.items) : pairs.items[j].key = fields[i].wire}
        absent(i) == IF isMap THEN hits(i) = {} ELSE i > Len(elems.items)
        raw(i) == IF isMap THEN pairs.items[CHOOSE j \in hits(i) : TRUE].val
                  ELSE elems.items[i]
        field(i) ==
            IF absent(i)
            THEN [ok |-> fields[i].hasdef, val |-> fields[i].def]
            ELSE IF isMap /\ Cardinality(hits(i)) > 1 THEN [ok |-> FALSE, val |-> <<>>]
            ELSE deserialize_field(fields[i].ty, raw(i))
    IN  IF ~isMap /\ ~isArr THEN Err
        ELSE IF isMap /\ ~pairs.ok THEN Err
        ELSE IF isArr /\ ~elems.ok THEN Err
        ELSE IF \E i \in 1..Len(fields) : ~field(i).ok THEN Err
        ELSE Ok([t |-> ty, p |-> [i \in 1..Len(fields) |-> field(i).val]])

\* serde.rs deserialize::<ty>: the marker decides; no coercion between types.
deserialize(ty, bytes) ==
    CASE ty = "i32" ->
            IF bytes[1] <= 127 THEN Ok(I32(bytes[1])) ELSE Err
      [] ty = "String" ->
            IF bytes[1] >= FIXSTR /\ bytes[1] < FIXSTR + 32
            THEN Ok(Str(SubSeq(bytes, 2, 1 + (bytes[1] - FIXSTR))))
            ELSE Err
      [] ty = "OptI32" ->
            IF bytes[1] = NIL THEN Ok(OptNone)
            ELSE IF bytes[1] <= 127 THEN Ok(OptSome(bytes[1])) ELSE Err
      [] ty = "Unit" ->
            IF bytes[1] = NIL THEN Ok(UnitVal) ELSE Err
      [] ty \in StructTypes -> deserialize_struct(ty, bytes)

Decodes(ty, bytes) == deserialize(ty, bytes).kind = "Ok"

(* ----------------------------------------------------------------- state *)

VARIABLES
    backend,        \* which Store the Database owns: "redb" or "memory"
    opened,         \* TRUE while a Database value exists
    file,           \* redb: the tables committed to the file
    mem,            \* memory: HashMap<String, HashMap<String, Vec<u8>>>
    default_table,  \* Database.default_table
    last            \* the last operation, its arguments and its result

vars == <<backend, opened, file, mem, default_table, last>>

\* The contents the open Database reads and writes.
Contents == IF backend = "redb" THEN file ELSE mem

Some(v) == [kind |-> "Some", val |-> v]

None == [kind |-> "None", val |-> NoVal]

OkUnit == [kind |-> "Ok", val |-> NoVal]

OkList(items) == [kind |-> "Ok", items |-> items]

\* The lengths of the tables named in names, added up one table at a time.
RECURSIVE SumLen(_, _)
SumLen(c, names) ==
    IF names = {} THEN 0
    ELSE LET t == CHOOSE x \in names : TRUE
         IN  Cardinality(DOMAIN c[t]) + SumLen(c, names \ {t})

(* ------------------------------------------- volatile backend (HashMap) *)

\* self.0.entry(table).or_default(): the table is created when absent.
memory_table_mut(m, T) == IF T \in DOMAIN m THEN m ELSE Put(m, T, EmptyMap)

\* Faulty variant: a read looks the table up as a write does.
memory_table_creates(m, T) == memory_table_mut(m, T)

\* Store::table(&self, ..) = self.0.get(table): the map after a read has
\* looked the table up; a table that is not there is not created.
memory_table(m, T) == m

memory_get(m, T, k, ty) ==
    IF T \notin DOMAIN m THEN None
    ELSE IF k \notin DOMAIN m[T] THEN None
    ELSE LET r == deserialize(ty, m[T][k])
         IN  IF r.kind = "Ok" THEN Some(r.val) ELSE Err

\* Faulty variant: the table is looked up, not created; a write to a table
\* that does not exist is dropped.
memory_insert_existing(m, T, k, v) ==
    IF T \in DOMAIN m THEN Put(m, T, Put(m[T], k, serialize(v))) ELSE m

memory_insert(m, T, k, v) ==
    LET m1 == memory_table_mut(m, T)
    IN  Put(m1, T, Put(m1[T], k, serialize(v)))

\* Faulty variant: the whole table is emptied, not the one key.
memory_remove_clears(m, T, k) == Put(memory_table_mut(m, T), T, EmptyMap)

memory_remove(m, T, k) ==
    LET m1 == memory_table_mut(m, T)
    IN  Put(m1, T, Del(m1[T], k))

\* Faulty variant: the table is looked up and left as it is.
memory_clear_keeps(m, T) == memory_table_mut(m, T)

\* Faulty variant: the table is taken out of the map.
memory_clear_removes(m, T) == Del(m, T)

memory_clear(m, T) == Put(memory_table_mut(m, T), T, EmptyMap)

\* Faulty variant: the keys are taken from the entries that read as strings.
memory_keys_decodable(m, T) ==
    IF T \notin DOMAIN m THEN OkList({})
    ELSE OkList({k \in DOMAIN m[T] : Decodes("String", m[T][k])})

memory_keys(m, T) ==
    IF T \notin DOMAIN m THEN OkList({}) ELSE OkList(DOMAIN m[T])

\* The values of the entries that decode as ty, as a bag: a Vec whose order
\* is the map's iteration order, which the code does not fix.
DecodedBag(tbl, ty) ==
    LET ks == {k \in DOMAIN tbl : Decodes(ty, tbl[k])}
        vs == {deserialize(ty, tbl[k]).val : k \in ks}
    IN  [w \in vs |-> Cardinality({k \in ks : deserialize(ty, tbl[k]).val = w})]

DecodedEntries(tbl, ty) ==
    {<<k, deserialize(ty, tbl[k]).val>> :
        k \in {x \in DOMAIN tbl : Decodes(ty, tbl[x])}}

memory_values(m, T, ty) ==
    IF T \notin DOMAIN m THEN OkList(EmptyBag) ELSE OkList(DecodedBag(m[T], ty))

memory_entries(m, T, ty) ==
    IF T \notin DOMAIN m THEN OkList({}) ELSE OkList(DecodedEntries(m[T], ty))

memory_len(m, T) == IF T \notin DOMAIN m THEN 0 ELSE Cardinality(DOMAIN m[T])

memory_contains_key(m, T, k) ==
    IF T \notin DOMAIN m THEN FALSE ELSE k \in DOMAIN m[T]

memory_list_tables(m) == DOMAIN m

memory_len_all_tables(m) == SumLen(m, DOMAIN m)

\* Faulty variant: every table is emptied and stays in the map.
memory_clear_all_tables_empties(m) == [T \in DOMAIN m |-> EmptyMap]

memory_clear_all_tables(m) == EmptyMap

(* ------------------------------------------------- durable backend (redb) *)

\* open_table in a write transaction creates the table when absent.
redb_open_table_write(f, T) == IF T \in DOMAIN f THEN f ELSE Put(f, T, EmptyMap)

\* open_table_read_or!: open_table in a read transaction; the file after
\* it, whether the table was there or TableDoesNotExist was intercepted.
redb_open_table_read(f, T) == f

\* Faulty variant: TableDoesNotExist is not intercepted.
redb_get_no_intercept(f, T, k, ty) ==
    IF T \notin DOMAIN f THEN Err
    ELSE IF k \notin DOMAIN f[T] THEN None
    ELSE IF f[T][k][1] = NIL THEN None
    ELSE LET r == deserialize(ty, f[T][k])
         IN  IF r.kind = "Ok" THEN Some(r.val) ELSE Err

\* open_table_read_or!: a read of a table that does not exist returns the
\* given empty result.  The bytes of a hit are decoded as Option<ty>
\* (redb.rs:36 returns deserialize(..) as the Result<Option<T>>).
redb_get(f, T, k, ty) ==
    IF T \notin DOMAIN f THEN None
    ELSE IF k \notin DOMAIN f[T] THEN None
    ELSE IF f[T][k][1] = NIL THEN None
    ELSE LET r == deserialize(ty, f[T][k])
         IN  IF r.kind = "Ok" THEN Some(r.val) ELSE Err

\* Faulty variant: the table definition ignores the name it is given.
redb_insert_fixed_table(f, T, k, v) ==
    LET f1 == redb_open_table_write(f, DEFAULT_DEFAULT_TABLE)
    IN  Put(f1, DEFAULT_DEFAULT_TABLE,
            Put(f1[DEFAULT_DEFAULT_TABLE], k, serialize(v)))

redb_insert(f, T, k, v) ==
    LET f1 == redb_open_table_write(f, T)
    IN  Put(f1, T, Put(f1[T], k, serialize(v)))

redb_remove(f, T, k) ==
    LET f1 == redb_open_table_write(f, T)
    IN  Put(f1, T, Del(f1[T], k))

\* Faulty variant: every table of the file is deleted, not the one named.
redb_clear_everything(f, T) == EmptyMap

\* Faulty variant: the table is opened for writing and emptied.
redb_clear_empties(f, T) == Put(redb_open_table_write(f, T), T, EmptyMap)

\* tnx.delete_table: the table object goes away (Ok(false) when absent).
redb_clear(f, T) == Del(f, T)

redb_keys(f, T) ==
    IF T \notin DOMAIN f THEN OkList({}) ELSE OkList(DOMAIN f[T])

\* Faulty variant: the first entry that does not decode fails the scan.
redb_values_strict(f, T, ty) ==
    IF T \notin DOMAIN f THEN OkList(EmptyBag)
    ELSE IF \E k \in DOMAIN f[T] : ~Decodes(ty, f[T][k])
         THEN [kind |-> "Err", items |-> EmptyBag]
         ELSE OkList(DecodedBag(f[T], ty))

redb_values(f, T, ty) ==
    IF T \notin DOMAIN f THEN OkList(EmptyBag) ELSE OkList(DecodedBag(f[T], ty))

redb_entries(f, T, ty) ==
    IF T \notin DOMAIN f THEN OkList({}) ELSE OkList(DecodedEntries(f[T], ty))

redb_len(f, T) == IF T \notin DOMAIN f THEN 0 ELSE Cardinality(DOMAIN f[T])

\* Faulty variant: the hit is decoded as get decodes it, and nil is a miss.
redb_contains_key_via_get(f, T, k) ==
    IF T \notin DOMAIN f THEN FALSE
    ELSE k \in DOMAIN f[T] /\ f[T][k][1] # NIL

redb_contains_key(f, T, k) ==
    IF T \notin DOMAIN f THEN FALSE ELSE k \in DOMAIN f[T]

redb_list_tables(f) == DOMAIN f

\* Faulty variant: the reserved table is left out of the sum.
redb_len_all_tables_user(f) ==
    SumLen(f, redb_list_tables(f) \ {DEFAULT_DEFAULT_TABLE})

\* for t in tnx.list_tables(): len += open_table(t).len().
redb_len_all_tables(f) == SumLen(f, redb_list_tables(f))

redb_clear_all_tables(f) == EmptyMap

\* Faulty variant: the file is created anew at every open.
redb_new_truncate(f) == EmptyMap

\* Database::create(path) opens the file that is there, or creates it.
redb_new(f) == f

(* ------------------------------------------------- Store (the dispatcher) *)

store_get(T, k, ty) ==
    IF backend = "redb" THEN redb_get(file, T, k, ty) ELSE memory_get(mem, T, k, ty)

store_keys(T) ==
    IF backend = "redb" THEN redb_keys(file, T) ELSE memory_keys(mem, T)

store_values(T, ty) ==
    IF backend = "redb" THEN redb_values(file, T, ty) ELSE memory_values(mem, T, ty)

store_entries(T, ty) ==
    IF backend = "redb" THEN redb_entries(file, T, ty) ELSE memory_entries(mem, T, ty)

store_len(T) ==
    IF backend = "redb" THEN redb_len(file, T) ELSE memory_len(mem, T)

store_contains_key(T, k) ==
    IF backend = "redb" THEN redb_contains_key(file, T, k)
    ELSE memory_contains_key(mem, T, k)

store_list_tables ==
    IF backend = "redb" THEN redb_list_tables(file) ELSE memory_list_tables(mem)

store_len_all_tables ==
    IF backend = "redb" THEN redb_len_all_tables(file) ELSE memory_len_all_tables(mem)

\* delete_table of either backend removes the table entirely.
store_delete_table(c, T) == Del(c, T)

\* A write of the active backend: the other backend's state is not there.
StoreWrite(newfile, newmem) ==
    IF backend = "redb"
    THEN file' = newfile /\ UNCHANGED mem
    ELSE mem' = newmem /\ UNCHANGED file

(* ------------------------------------------------------- Table / TableMut *)

Table_get(name, k, ty) == store_get(name, k, ty)

Table_keys(name) == store_keys(name)

Table_values(name, ty) == store_values(name, ty)

Table_entries(name, ty) == store_entries(name, ty)

Table_len(name) == store_len(name)

Table_is_empty(name) == store_len(name) = 0

Table_contains_key(name, k) == store_contains_key(name, k)

Table_size(name) == Table_len(name)

\* get_or(key, d): self.get(key)?.unwrap_or(d).
Table_get_or(name, k, d) ==
    LET g == Table_get(name, k, d.t)
    IN  IF g.kind = "Err" THEN Err
        ELSE IF g.kind = "Some" THEN Ok(g.val) ELSE Ok(d)

\* get_or_else(key, thunk), the thunk returning d:
\* self.get(key)?.unwrap_or_else(thunk).  calls counts the invocations of
\* the thunk.
Table_get_or_else(name, k, d) ==
    LET g == Table_get(name, k, d.t)
    IN  IF g.kind = "Err" THEN [res |-> Err, calls |-> 0]
        ELSE IF g.kind = "Some" THEN [res |-> Ok(g.val), calls |-> 0]
        ELSE [res |-> Ok(d), calls |-> 1]

\* T::default() of the types of the model.
Default(ty) ==
    CASE ty = "i32" -> I32(0)
      [] ty = "String" -> Str(<<>>)
      [] ty = "OptI32" -> OptNone
      [] ty = "Unit" -> UnitVal

\* get_or_default(key) = get_or_else(key, T::default).
Table_get_or_default(name, k, ty) == Table_get_or_else(name, k, Default(ty)).res

\* Faulty variant: the key counts only when its value reads as a string.
Table_has_via_get(name, k) == Table_get(name, k, "String").kind = "Some"

Table_has(name, k) == Table_contains_key(name, k)

Table_contains(name, k) == Table_contains_key(name, k)

\* Faulty variant: the conversion names the reserved table.
TableMut_into_Table_reserved(name) == DEFAULT_DEFAULT_TABLE

\* From<&TableMut> for Table: the same store, the same name.
TableMut_into_Table(name) == name

\* impl TableReadInterface for TableMut: Into::<Table>::into(self).method(..).
TableMut_get(name, k, ty) == Table_get(TableMut_into_Table(name), k, ty)

TableMut_keys(name) == Table_keys(TableMut_into_Table(name))

TableMut_values(name, ty) == Table_values(TableMut_into_Table(name), ty)

TableMut_entries(name, ty) == Table_entries(TableMut_into_Table(name), ty)

TableMut_len(name) == Table_len(TableMut_into_Table(name))

TableMut_is_empty(name) == Table_is_empty(TableMut_into_Table(name))

TableMut_contains_key(name, k) == Table_contains_key(TableMut_into_Table(name), k)

TableMut_size(name) == Table_size(TableMut_into_Table(name))

TableMut_contains(name, k) == Table_contains(TableMut_into_Table(name), k)

TableMut_has(name, k) == Table_has(TableMut_into_Table(name), k)

TableMut_get_or(name, k, d) == Table_get_or(TableMut_into_Table(name), k, d)

TableMut_get_or_else(name, k, d) == Table_get_or_else(TableMut_into_Table(name), k, d)

TableMut_get_or_default(name, k, ty) ==
    Table_get_or_default(TableMut_into_Table(name), k, ty)

(* ---------------------------------------------------------------- Database *)

\* Faulty variant: the filter keeps the default table and drops the others.
Database_list_tables_inverted == {t \in store_list_tables : t = default_table}

\* Faulty variant: the filter compares with the constant, not the field.
Database_list_tables_reserved ==
    {t \in store_list_tables : t # DEFAULT_DEFAULT_TABLE}

\* Faulty variant: no name is filtered out.
Database_list_tables_unfiltered == store_list_tables

Database_list_tables == {t \in store_list_tables : t # default_table}

Database_len_all_tables == store_len_all_tables

Database_size_all_tables == Database_len_all_tables

\* The number of entries of all tables together.
CountEntries(c) ==
    Cardinality({e \in TableNames \X Keys :
                    e[1] \in DOMAIN c /\ e[2] \in DOMAIN c[e[1]]})

\* Room for the entry (T, k): it is there already, or the bound allows one more.
HasRoom(T, k) ==
    \/ T \in DOMAIN Contents /\ k \in DOMAIN Contents[T]
    \/ CountEntries(Contents) < MaxEntries

\* What the operation found: whether table T and its key k were there.
PreOf(T, k) ==
    IF T \notin DOMAIN Contents THEN "no_table"
    ELSE IF k \in DOMAIN Contents[T] THEN "key" ELSE "no_key"

PreOfTable(T) ==
    IF T \notin DOMAIN Contents THEN "no_table"
    ELSE IF Contents[T] = EmptyMap THEN "empty" ELSE "entries"

\* The record of an operation: its name, arguments and result, what it found
\* (pre), whether it was called on a table handle or on the Database itself
\* (via), how often it invoked the caller's thunk (calls) and, for close and
\* open, the tables as they were at the close.
Op(op, T, k, v, res, pre) ==
    [op |-> op, table |-> T, key |-> k, val |-> v, res |-> res, pre |-> pre,
     via |-> "table", calls |-> 0, snap |-> EmptyMap]

\* Faulty variant: the mirrored methods use the constant, not the field.
Database_target_reserved == DEFAULT_DEFAULT_TABLE

\* let table = &self.default_table: the table the Database's own read and
\* write methods hand to self.table(..) / self.table_mut(..).
Database_target == default_table

Database_get(k, ty) == Table_get(Database_target, k, ty)

Database_keys == Table_keys(Database_target)

Database_values(ty) == Table_values(Database_target, ty)

Database_entries(ty) == Table_entries(Database_target, ty)

Database_len == Table_len(Database_target)

Database_is_empty == Table_is_empty(Database_target)

Database_contains_key(k) == Table_contains_key(Database_target, k)

Database_size == Table_size(Database_target)

Init ==
    /\ backend \in {"redb", "memory"}
    /\ opened = TRUE
    /\ file = EmptyMap
    /\ mem = EmptyMap
    /\ default_table = DEFAULT_DEFAULT_TABLE
    /\ last = Op("new", "-", "-", NoVal, OkUnit, "-")

\* TableMut::insert (and set) on table T.
Insert(T, k, v) ==
    /\ opened
    /\ HasRoom(T, k)
    /\ StoreWrite(redb_insert(file, T, k, v), memory_insert(mem, T, k, v))
    /\ last' = Op("insert", T, k, v, OkUnit, PreOf(T, k))
    /\ UNCHANGED <<backend, opened, default_table>>

\* TableMut::remove (and delete) on table T.
Remove(T, k) ==
    /\ opened
    /\ StoreWrite(redb_remove(file, T, k), memory_remove(mem, T, k))
    /\ last' = Op("remove", T, k, NoVal, OkUnit, PreOf(T, k))
    /\ UNCHANGED <<backend, opened, default_table>>

\* TableMut::clear (and reset) on table T.
Clear(T) ==
    /\ opened
    /\ StoreWrite(redb_clear(file, T), memory_clear(mem, T))
    /\ last' = Op("clear", T, "-", NoVal, OkUnit, PreOfTable(T))
    /\ UNCHANGED <<backend, opened, default_table>>

\* TableMut::get_or_insert_with(key, thunk), the thunk returning d: get
\* decoded as d's type; an error returns, a hit returns the stored value, a
\* miss invokes the thunk, inserts d and returns it.
TableMut_get_or_insert_with(T, k, d, via) ==
    /\ opened
    /\ LET g == Table_get(T, k, d.t)
           rec(res, n) == [Op("get_or_insert", T, k, d, res, PreOf(T, k))
                              EXCEPT !.via = via, !.calls = n]
       IN  CASE g.kind = "Err" ->
                   /\ last' = rec(Err, 0)
                   /\ UNCHANGED <<file, mem>>
             [] g.kind = "Some" ->
                   /\ last' = rec(Ok(g.val), 0)
                   /\ UNCHANGED <<file, mem>>
             [] g.kind = "None" ->
                   /\ HasRoom(T, k)
                   /\ StoreWrite(redb_insert(file, T, k, d),
                                 memory_insert(mem, T, k, d))
                   /\ last' = rec(Ok(d), 1)
    /\ UNCHANGED <<backend, opened, default_table>>

\* TableMut::get_or_insert(key, d) = get_or_insert_with(key, move || d).
GetOrInsert(T, k, d) == TableMut_get_or_insert_with(T, k, d, "table")

\* Database::insert (and set): table_mut(default table).insert.
DbInsert(k, v) ==
    /\ opened
    /\ HasRoom(Database_target, k)
    /\ StoreWrite(redb_insert(file, Database_target, k, v),
                  memory_insert(mem, Database_target, k, v))
    /\ last' = [Op("insert", Database_target, k, v, OkUnit, PreOf(Database_target, k))
                   EXCEPT !.via = "db"]
    /\ UNCHANGED <<backend, opened, default_table>>

\* Database::remove (and delete): table_mut(default table).remove.
DbRemove(k) ==
    /\ opened
    /\ StoreWrite(redb_remove(file, Database_target, k),
                  memory_remove(mem, Database_target, k))
    /\ last' = [Op("remove", Database_target, k, NoVal, OkUnit, PreOf(Database_target, k))
                   EXCEPT !.via = "db"]
    /\ UNCHANGED <<backend, opened, default_table>>

\* Database::clear (and reset): table_mut(default table).clear.
DbClear ==
    /\ opened
    /\ StoreWrite(redb_clear(file, Database_target),
                  memory_clear(mem, Database_target))
    /\ last' = [Op("clear", Database_target, "-", NoVal, OkUnit, PreOfTable(Database_target))
                   EXCEPT !.via = "db"]
    /\ UNCHANGED <<backend, opened, default_table>>

\* Database::get_or_insert / get_or_insert_with.
DbGetOrInsert(k, d) == TableMut_get_or_insert_with(Database_target, k, d, "db")

\* Database::delete_table(name).
DeleteTable(T) ==
    /\ opened
    /\ StoreWrite(store_delete_table(file, T), store_delete_table(mem, T))
    /\ last' = Op("delete_table", T, "-", NoVal, OkUnit, PreOfTable(T))
    /\ UNCHANGED <<backend, opened, default_table>>

\* Database::delete_all_tables().
DeleteAllTables ==
    /\ opened
    /\ StoreWrite(redb_clear_all_tables(file), memory_clear_all_tables(mem))
    /\ last' = Op("delete_all_tables", "-", "-", NoVal, OkUnit,
                  IF Contents = EmptyMap THEN "no_table"
                  ELSE IF CountEntries(Contents) = 0 THEN "empty" ELSE "entries")
    /\ UNCHANGED <<backend, opened, default_table>>

\* Database::close(): the value is dropped; a HashMap goes with it, the
\* file stays.  The record keeps the default table name and what the
\* tables held at the close, for comparison after a later open.
Close ==
    /\ opened
    /\ opened' = FALSE
    /\ mem' = EmptyMap
    /\ last' = [Op("close", default_table, "-", NoVal, OkUnit, "-") EXCEPT !.snap = Contents]
    /\ UNCHANGED <<backend, file, default_table>>

\* Database::open(path) on the same path, or Database::in_memory() again.
Open ==
    /\ ~opened
    /\ opened' = TRUE
    /\ default_table' = DEFAULT_DEFAULT_TABLE
    /\ file' = redb_new(file)
    /\ last' = [Op("open", last.table, "-", NoVal, OkUnit, "-") EXCEPT !.snap = last.snap]
    /\ UNCHANGED <<backend, mem>>

\* Table a of c under the name b, when a exists and b is another name.
Rename(c, a, b) ==
    IF a = b \/ a \notin DOMAIN c THEN c ELSE Put(Del(c, a), b, c[a])

\* Faulty variant: the entries of the old default table move to the new name.
SetDefaultTable_renames(n) ==
    /\ opened
    /\ default_table' = n
    /\ StoreWrite(Rename(file, default_table, n), Rename(mem, default_table, n))
    /\ last' = Op("set_default_table", n, "-", NoVal, OkUnit, "-")
    /\ UNCHANGED <<backend, opened>>

\* Database::set_default_table(name).
SetDefaultTable(n) ==
    /\ opened
    /\ default_table' = n
    /\ last' = Op("set_default_table", n, "-", NoVal, OkUnit, "-")
    /\ UNCHANGED <<backend, opened, file, mem>>

Next ==
    \/ \E T \in TableNames, k \in Keys, v \in Values : Insert(T, k, v)
    \/ \E T \in TableNames, k \in Keys : Remove(T, k)
    \/ \E T \in TableNames : Clear(T)
    \/ \E T \in TableNames, k \in Keys, d \in Values : GetOrInsert(T, k, d)
    \/ \E k \in Keys, v \in Values : DbInsert(k, v)
    \/ \E k \in Keys : DbRemove(k)
    \/ DbClear
    \/ \E k \in Keys, d \in Values : DbGetOrInsert(k, d)
    \/ \E T \in TableNames : DeleteTable(T)
    \/ DeleteAllTables
    \/ \E n \in TableNames : SetDefaultTable(n)
    \/ Close
    \/ Open

Spec == Init /\ [][Next]_vars

(* ------------------------------------------- a Database holding structs *)

\* The user names and passwords written, as character codes.
UserNames == {<<121, 117, 105>>, <<103, 49>>}

Passwords == {<<49, 50>>}

Users ==
    {UserV1(n, pw) : n \in UserNames, pw \in Passwords}
        \cup {UserV2(n, r) : n \in UserNames, r \in Role}

\* set and remove on the Database and on table handles, the values being
\* structs of the two versions.
NextSerde ==
    \/ \E T \in TableNames, k \in Keys, u \in Users : Insert(T, k, u)
    \/ \E k \in Keys, u \in Users : DbInsert(k, u)
    \/ \E T \in TableNames, k \in Keys : Remove(T, k)

SpecSerde == Init /\ [][NextSerde]_vars

(* ------------------------------------ two Databases, one of each backend *)

\* The same calls made on a durable Database (file) and on a volatile one
\* (mem), side by side.  last keeps the call with the result of the durable
\* Database (res) and of the volatile one (resm).

PairOp(op, T, k, v, res, resm) ==
    [op |-> op, table |-> T, key |-> k, val |-> v, res |-> res, resm |-> resm]

\* get_or_insert_with on a handle of the durable store: the result and the
\* file afterwards.
redb_get_or_insert_with(f, T, k, d) ==
    LET g == redb_get(f, T, k, d.t)
    IN  CASE g.kind = "Err" -> [res |-> Err, store |-> f]
          [] g.kind = "Some" -> [res |-> Ok(g.val), store |-> f]
          [] g.kind = "None" -> [res |-> Ok(d), store |-> redb_insert(f, T, k, d)]

\* get_or_insert_with on a handle of the volatile store.
memory_get_or_insert_with(m, T, k, d) ==
    LET g == memory_get(m, T, k, d.t)
    IN  CASE g.kind = "Err" -> [res |-> Err, store |-> m]
          [] g.kind = "Some" -> [res |-> Ok(g.val), store |-> m]
          [] g.kind = "None" -> [res |-> Ok(d), store |-> memory_insert(m, T, k, d)]

InitPair ==
    /\ backend = "both"
    /\ opened = TRUE
    /\ file = EmptyMap
    /\ mem = EmptyMap
    /\ default_table = DEFAULT_DEFAULT_TABLE
    /\ last = PairOp("new", "-", "-", NoVal, OkUnit, OkUnit)

PairInsert(T, k, v) ==
    /\ \/ T \in DOMAIN file /\ k \in DOMAIN file[T]
       \/ CountEntries(file) < MaxEntries
    /\ file' = redb_insert(file, T, k, v)
    /\ mem' = memory_insert(mem, T, k, v)
    /\ last' = PairOp("insert", T, k, v, OkUnit, OkUnit)
    /\ UNCHANGED <<backend, opened, default_table>>

PairRemove(T, k) ==
    /\ file' = redb_remove(file, T, k)
    /\ mem' = memory_remove(mem, T, k)
    /\ last' = PairOp("remove", T, k, NoVal, OkUnit, OkUnit)
    /\ UNCHANGED <<backend, opened, default_table>>

PairClear(T) ==
    /\ file' = redb_clear(file, T)
    /\ mem' = memory_clear(mem, T)
    /\ last' = PairOp("clear", T, "-", NoVal, OkUnit, OkUnit)
    /\ UNCHANGED <<backend, opened, default_table>>

PairGetOrInsert(T, k, d) ==
    LET r == redb_get_or_insert_with(file, T, k, d)
        m == memory_get_or_insert_with(mem, T, k, d)
    IN  /\ \/ T \in DOMAIN file /\ k \in DOMAIN file[T]
           \/ CountEntries(file) < MaxEntries
        /\ file' = r.store
        /\ mem' = m.store
        /\ last' = PairOp("get_or_insert", T, k, d, r.res, m.res)
        /\ UNCHANGED <<backend, opened, default_table>>

PairDeleteTable(T) ==
    /\ file' = store_delete_table(file, T)
    /\ mem' = store_delete_table(mem, T)
    /\ last' = PairOp("delete_table", T, "-", NoVal, OkUnit, OkUnit)
    /\ UNCHANGED <<backend, opened, default_table>>

PairDeleteAllTables ==
    /\ file' = redb_clear_all_tables(file)
    /\ mem' = memory_clear_all_tables(mem)
    /\ last' = PairOp("delete_all_tables", "-", "-", NoVal, OkUnit, OkUnit)
    /\ UNCHANGED <<backend, opened, default_table>>

NextPair ==
    \/ \E T \in TableNames, k \in Keys, v \in Values : PairInsert(T, k, v)
    \/ \E T \in TableNames, k \in Keys : PairRemove(T, k)
    \/ \E T \in TableNames : PairClear(T)
    \/ \E T \in TableNames, k \in Keys, d \in Values : PairGetOrInsert(T, k, d)
    \/ \E T \in TableNames : PairDeleteTable(T)
    \/ PairDeleteAllTables

SpecPair == InitPair /\ [][NextPair]_vars

(* ------------------------------------------------------ reads as steps *)

\* A read method called on a handle of table T: the backend looks the table
\* up (Store::table / open_table_read_or!), and the record keeps the result.
ReadStep(op, T, k, v, res) ==
    /\ opened
    /\ StoreWrite(redb_open_table_read(file, T), memory_table(mem, T))
    /\ last' = Op(op, T, k, v, res, PreOf(T, k))
    /\ UNCHANGED <<backend, opened, default_table>>

Get(T, k, ty) == ReadStep("get", T, k, Default(ty), Table_get(T, k, ty))

KeysOf(T) == ReadStep("keys", T, "-", NoVal, OkList(Table_keys(T)))

ValuesOf(T, ty) == ReadStep("values", T, "-", Default(ty), OkList(Table_values(T, ty)))

EntriesOf(T, ty) == ReadStep("entries", T, "-", Default(ty), OkList(Table_entries(T, ty)))

LenOf(T) == ReadStep("len", T, "-", NoVal, Ok(Table_len(T)))

IsEmpty(T) == ReadStep("is_empty", T, "-", NoVal, Ok(Table_is_empty(T)))

ContainsKey(T, k) == ReadStep("contains_key", T, k, NoVal, Ok(Table_contains_key(T, k)))

GetOr(T, k, d) == ReadStep("get_or", T, k, d, Table_get_or(T, k, d))

GetOrElse(T, k, d) == ReadStep("get_or_else", T, k, d, Table_get_or_else(T, k, d).res)

GetOrDefault(T, k, ty) ==
    ReadStep("get_or_default", T, k, Default(ty), Table_get_or_default(T, k, ty))

\* Database::list_tables(): the store's listing, filtered; no table is opened.
ListTables ==
    /\ opened
    /\ last' = Op("list_tables", "-", "-", NoVal, OkList(Database_list_tables), "-")
    /\ UNCHANGED <<backend, opened, default_table, file, mem>>

\* Database::len_all_tables(): the durable backend opens, in its read
\* transaction, the tables the engine lists; the volatile one sums the map.
LenAllTables ==
    /\ opened
    /\ last' = Op("len_all_tables", "-", "-", NoVal, Ok(Database_len_all_tables), "-")
    /\ UNCHANGED <<backend, opened, default_table, file, mem>>

NextRead ==
    \/ \E T \in TableNames, k \in Keys, v \in Values : Insert(T, k, v)
    \/ \E T \in TableNames, k \in Keys, ty \in Types : Get(T, k, ty)
    \/ \E T \in TableNames : KeysOf(T)
    \/ \E T \in TableNames, ty \in Types : ValuesOf(T, ty)
    \/ \E T \in TableNames, ty \in Types : EntriesOf(T, ty)
    \/ \E T \in TableNames : LenOf(T)
    \/ \E T \in TableNames : IsEmpty(T)
    \/ \E T \in TableNames, k \in Keys : ContainsKey(T, k)
    \/ \E T \in TableNames, k \in Keys, d \in Values : GetOr(T, k, d)
    \/ \E T \in TableNames, k \in Keys, d \in Values : GetOrElse(T, k, d)
    \/ \E T \in TableNames, k \in Keys, ty \in Types : GetOrDefault(T, k, ty)
    \/ ListTables
    \/ LenAllTables

SpecRead == Init /\ [][NextRead]_vars

(* ------------------------------------------------------ writes that fail *)

\* A value whose Serialize implementation returns an error.
Unserializable == [t |-> "Unserializable", p |-> <<>>]

\* serialize(value) as the Result it is: value.serialize(&mut serializer)?
\* hands the error of the value's implementation to the caller.
try_serialize(v) == IF v = Unserializable THEN Err ELSE Ok(serialize(v))

\* Where a write of the durable backend fails: at begin_write, at the
\* opening of the table, at the change itself (insert, remove,
\* delete_table), at the commit, or nowhere.
Faults == {"none", "begin", "open", "change", "commit"}

\* A write transaction that goes out of scope on a `?` return was not
\* committed: the file stays as it was at begin_write.
redb_drop(f, tnx) == f

\* tnx.commit(): the file is what the transaction made of it.
redb_commit(f, tnx) == tnx

\* Store::insert of the volatile backend: table_mut(table) first, then
\* table.insert(key, serialize(value)?).
memory_try_insert(m, T, k, v) ==
    LET m1 == memory_table_mut(m, T)
        bytes == try_serialize(v)
    IN  IF bytes.kind = "Err" THEN [res |-> Err, store |-> m1]
        ELSE [res |-> OkUnit, store |-> Put(m1, T, Put(m1[T], k, bytes.val))]

\* Store::insert of the durable backend: serialize(value)?, begin_write()?,
\* open_table(..)?, table.insert(..)?, commit()?.
redb_try_insert(f, T, k, v, fault) ==
    LET bytes == try_serialize(v)
        t1 == redb_open_table_write(f, T)
        t2 == Put(t1, T, Put(t1[T], k, bytes.val))
    IN  IF bytes.kind = "Err" \/ fault = "begin" THEN [res |-> Err, store |-> f]
        ELSE IF fault = "open" THEN [res |-> Err, store |-> redb_drop(f, f)]
        ELSE IF fault = "change" THEN [res |-> Err, store |-> redb_drop(f, t1)]
        ELSE IF fault = "commit" THEN [res |-> Err, store |-> redb_drop(f, t2)]
        ELSE [res |-> OkUnit, store |-> redb_commit(f, t2)]

\* Store::remove of the durable backend: begin_write()?, open_table(..)?,
\* table.remove(key)?, commit()?.
redb_try_remove(f, T, k, fault) ==
    LET t1 == redb_open_table_write(f, T)
        t2 == Put(t1, T, Del(t1[T], k))
    IN  IF fault = "begin" THEN [res |-> Err, store |-> f]
        ELSE IF fault = "open" THEN [res |-> Err, store |-> redb_drop(f, f)]
        ELSE IF fault = "change" THEN [res |-> Err, store |-> redb_drop(f, t1)]
        ELSE IF fault = "commit" THEN [res |-> Err, store |-> redb_drop(f, t2)]
        ELSE [res |-> OkUnit, store |-> redb_commit(f, t2)]

\* Store::clear of the durable backend: begin_write()?, delete_table(..)?,
\* commit()?; no table is opened.
redb_try_clear(f, T, fault) ==
    LET t1 == Del(f, T)
    IN  IF fault = "begin" THEN [res |-> Err, store |-> f]
        ELSE IF fault = "change" THEN [res |-> Err, store |-> redb_drop(f, f)]
        ELSE IF fault = "commit" THEN [res |-> Err, store |-> redb_drop(f, t1)]
        ELSE [res |-> OkUnit, store |-> redb_commit(f, t1)]

\* The file with all its tables deleted but one: what the loop of
\* clear_all_tables has made of it when the delete_table of its last table
\* fails.
AllButOne(f) ==
    IF f = EmptyMap THEN f
    ELSE LET t == CHOOSE x \in DOMAIN f : TRUE IN [x \in {t} |-> f[x]]

\* Faulty variant: every delete_table is committed on its own.
redb_try_clear_all_tables_each(f, fault) ==
    IF fault = "begin" THEN [res |-> Err, store |-> f]
    ELSE IF fault = "change" THEN [res |-> Err, store |-> AllButOne(f)]
    ELSE IF fault = "commit" THEN [res |-> Err, store |-> f]
    ELSE [res |-> OkUnit, store |-> EmptyMap]

\* Store::clear_all_tables of the durable backend: begin_write()?,
\* list_tables()?, delete_table(table)? for each, commit()?; one
\* transaction for all the tables.
redb_try_clear_all_tables(f, fault) ==
    IF fault = "begin" THEN [res |-> Err, store |-> f]
    ELSE IF fault = "change" THEN [res |-> Err, store |-> redb_drop(f, AllButOne(f))]
    ELSE IF fault = "commit" THEN [res |-> Err, store |-> redb_drop(f, EmptyMap)]
    ELSE [res |-> OkUnit, store |-> redb_commit(f, EmptyMap)]

\* The record of a write that can fail: the operation record and the fault.
TryOp(op, T, k, v, res, pre, fault) ==
    [op |-> op, table |-> T, key |-> k, val |-> v, res |-> res, pre |-> pre,
     fault |-> fault]

\* TableMut::insert with a value that may not serialize, on a store whose
\* transaction may fail; the volatile backend has no transaction to fail.
TryInsert(T, k, v, fault) ==
    /\ opened
    /\ backend = "memory" => fault = "none"
    /\ HasRoom(T, k)
    /\ LET r == redb_try_insert(file, T, k, v, fault)
           m == memory_try_insert(mem, T, k, v)
       IN  /\ StoreWrite(r.store, m.store)
           /\ last' = TryOp("insert", T, k, v,
                            IF backend = "redb" THEN r.res ELSE m.res,
                            PreOf(T, k), fault)
    /\ UNCHANGED <<backend, opened, default_table>>

TryRemove(T, k, fault) ==
    /\ opened
    /\ backend = "memory" => fault = "none"
    /\ LET r == redb_try_remove(file, T, k, fault)
       IN  /\ StoreWrite(r.store, memory_remove(mem, T, k))
           /\ last' = TryOp("remove", T, k, NoVal,
                            IF backend = "redb" THEN r.res ELSE OkUnit,
                            PreOf(T, k), fault)
    /\ UNCHANGED <<backend, opened, default_table>>

TryClear(T, fault) ==
    /\ opened
    /\ backend = "memory" => fault = "none"
    /\ fault # "open"
    /\ LET r == redb_try_clear(file, T, fault)
       IN  /\ StoreWrite(r.store, memory_clear(mem, T))
           /\ last' = TryOp("clear", T, "-", NoVal,
                            IF backend = "redb" THEN r.res ELSE OkUnit,
                            PreOfTable(T), fault)
    /\ UNCHANGED <<backend, opened, default_table>>

TryDeleteAllTables(fault) ==
    /\ opened
    /\ backend = "memory" => fault = "none"
    /\ fault # "open"
    /\ LET r == redb_try_clear_all_tables(file, fault)
       IN  /\ StoreWrite(r.store, memory_clear_all_tables(mem))
           /\ last' = TryOp("delete_all_tables", "-", "-", NoVal,
                            IF backend = "redb" THEN r.res ELSE OkUnit,
                            "-", fault)
    /\ UNCHANGED <<backend, opened, default_table>>

NextFail ==
    \/ \E T \in TableNames, k \in Keys, v \in {I32(30), OptNone, Unserializable}, fault \in Faults :
          TryInsert(T, k, v, fault)
    \/ \E T \in TableNames, k \in Keys, fault \in Faults : TryRemove(T, k, fault)
    \/ \E T \in TableNames, fault \in Faults : TryClear(T, fault)
    \/ \E fault \in Faults : TryDeleteAllTables(fault)

SpecFail == Init /\ [][NextFail]_vars

(* ------------------------------- get_or_insert between its read and write *)

\* The record of a get_or_insert call and its position: pc is "read" after
\* self.get(key)? found nothing and before self.insert(key, &default)?, and
\* "done" once the call has returned; raced is the value another writer
\* inserted under the same key in between.
RaceOp(op, T, k, d, res, pc, raced) ==
    [op |-> op, table |-> T, key |-> k, val |-> d, res |-> res, pc |-> pc,
     raced |-> raced]

InitRace ==
    /\ backend \in {"redb", "memory"}
    /\ opened = TRUE
    /\ file = EmptyMap
    /\ mem = EmptyMap
    /\ default_table = DEFAULT_DEFAULT_TABLE
    /\ last = RaceOp("new", "-", "-", NoVal, OkUnit, "done", NoVal)

\* get_or_insert_with up to its match: self.get(key)?.  An error and a hit
\* return; a miss goes on to the None arm.
GetOrInsertRead(T, k, d) ==
    /\ opened
    /\ last.pc = "done"
    /\ LET g == Table_get(T, k, d.t)
       IN  last' = CASE g.kind = "Err" ->
                          RaceOp("get_or_insert", T, k, d, Err, "done", NoVal)
                     [] g.kind = "Some" ->
                          RaceOp("get_or_insert", T, k, d, Ok(g.val), "done", NoVal)
                     [] g.kind = "None" ->
                          RaceOp("get_or_insert", T, k, d, None, "read", NoVal)
    /\ UNCHANGED <<backend, opened, default_table, file, mem>>

\* Faulty variant: the insert is skipped when the key has appeared meanwhile.
GetOrInsertWrite_if_absent ==
    /\ opened
    /\ last.pc = "read"
    /\ HasRoom(last.table, last.key)
    /\ IF PreOf(last.table, last.key) = "key"
       THEN UNCHANGED <<file, mem>>
       ELSE StoreWrite(redb_insert(file, last.table, last.key, last.val),
                       memory_insert(mem, last.table, last.key, last.val))
    /\ last' = [last EXCEPT !.pc = "done", !.res = Ok(last.val)]
    /\ UNCHANGED <<backend, opened, default_table>>

\* The None arm of get_or_insert_with: the thunk's value is inserted, in a
\* write transaction of its own, and returned.
GetOrInsertWrite ==
    /\ opened
    /\ last.pc = "read"
    /\ HasRoom(last.table, last.key)
    /\ StoreWrite(redb_insert(file, last.table, last.key, last.val),
                  memory_insert(mem, last.table, last.key, last.val))
    /\ last' = [last EXCEPT !.pc = "done", !.res = Ok(last.val)]
    /\ UNCHANGED <<backend, opened, default_table>>

\* Another writer of the same file commits an insert of its own; the engine
\* serializes it against the write transactions of this Database.  The map
\* of the volatile backend is behind an exclusive borrow and has no other
\* writer.
OtherWriterInsert(T, k, w) ==
    /\ opened
    /\ backend = "redb"
    /\ HasRoom(T, k)
    /\ file' = redb_insert(file, T, k, w)
    /\ last' = IF last.pc = "read" /\ last.table = T /\ last.key = k
               THEN [last EXCEPT !.raced = w]
               ELSE last
    /\ UNCHANGED <<backend, opened, default_table, mem>>

\* TableMut::remove between two calls.
RaceRemove(T, k) ==
    /\ opened
    /\ last.pc = "done"
    /\ StoreWrite(redb_remove(file, T, k), memory_remove(mem, T, k))
    /\ last' = RaceOp("remove", T, k, NoVal, OkUnit, "done", NoVal)
    /\ UNCHANGED <<backend, opened, default_table>>

NextRace ==
    \/ \E T \in TableNames, k \in Keys, d \in Values : GetOrInsertRead(T, k, d)
    \/ GetOrInsertWrite
    \/ \E T \in TableNames, k \in Keys, w \in Values : OtherWriterInsert(T, k, w)
    \/ \E T \in TableNames, k \in Keys : RaceRemove(T, k)

SpecRace == InitRace /\ [][NextRace]_vars

(* ------------------------------------------------------ claim vocabulary *)

\* The entries of table T, empty when the table does not exist.
TableEntries(T) == IF T \in DOMAIN Contents THEN Contents[T] ELSE EmptyMap

Present(T, k) == T \in DOMAIN Contents /\ k \in DOMAIN Contents[T]

\* Every read of T answers as for a table without entries.
ReadsAsEmpty(T) ==
    /\ \A k \in Keys, ty \in Types : Table_get(T, k, ty) = None
    /\ \A k \in Keys : ~Table_contains_key(T, k)
    /\ Table_keys(T) = OkList({})
    /\ \A ty \in Types : Table_values(T, ty) = OkList(EmptyBag)
    /\ \A ty \in Types : Table_entries(T, ty) = OkList({})
    /\ Table_len(T) = 0
    /\ Table_size(T) = 0
    /\ Table_is_empty(T)

TableWrites == {"insert", "remove", "clear", "get_or_insert", "delete_table"}

(* ----------------------------------------------------------------- claims *)

\* C1: on every backend, right after insert(T,k,v) the get of k in T with
\* v's type returns Some(v), for every supported value, optionals and unit
\* included.
C1_RoundTrip ==
    (opened /\ last.op = "insert") =>
        Table_get(last.table, last.key, last.val.t) = Some(last.val)

\* C2: get with a type the stored bytes do not decode to returns a decode
\* error, never None; after set(k, 30) get::<i32> is Some(30) and
\* get::<String> is an error; on both backends.
C2_DecodeError ==
    opened =>
        /\ \A T \in TableNames, k \in Keys, ty \in Types :
              (Present(T, k) /\ ~Decodes(ty, Contents[T][k])) =>
                  Table_get(T, k, ty) = Err
        /\ (last.op = "insert" /\ last.val = I32(30)) =>
              /\ Table_get(last.table, last.key, "i32") = Some(I32(30))
              /\ Table_get(last.table, last.key, "String") = Err

\* C3: remove(T,k) returns success whether or not k is present; on an
\* absent key or a table never written it leaves the entries of every table
\* unchanged; after it get(T,k) is None for every type and contains_key(T,k)
\* is false.
C3_Remove ==
    [][\A T \in TableNames, k \in Keys :
          (last'.op = "remove" /\ last'.table = T /\ last'.key = k) =>
              /\ last'.res = OkUnit
              /\ \A ty \in Types : (Table_get(T, k, ty) = None)'
              /\ (~Table_contains_key(T, k))'
              /\ (last'.pre # "key") =>
                    \A T2 \in TableNames : TableEntries(T2)' = TableEntries(T2)
      ]_vars

\* A remove of an absent key has acted while other entries were there.
C3_Witness ==
    /\ opened
    /\ last.op = "remove"
    /\ last.pre = "no_key"
    /\ Table_len(last.table) > 0

\* C4: after clear(T), whatever T held: len = size = 0, is_empty, keys is
\* empty, and values and entries are empty for every type.
C4_Clear == (opened /\ last.op = "clear") => ReadsAsEmpty(last.table)

\* A clear of a table that held entries has acted.
C4_Witness == opened /\ last.op = "clear" /\ last.pre = "entries"

\* C5: insert, remove, clear, get_or_insert through a handle on T and
\* delete_table(T) leave every other table as it was: the same entries, the
\* same answers of get, contains_key, keys and len.
C5_Isolation ==
    [][\A T \in TableNames, T2 \in TableNames :
          (T2 # T /\ last'.op \in TableWrites /\ last'.table = T) =>
              /\ TableEntries(T2)' = TableEntries(T2)
              /\ (T2 \in store_list_tables)' = (T2 \in store_list_tables)
              /\ Table_keys(T2)' = Table_keys(T2)
              /\ Table_len(T2)' = Table_len(T2)
              /\ \A k \in Keys :
                    /\ Table_contains_key(T2, k)' = Table_contains_key(T2, k)
                    /\ \A ty \in Types : Table_get(T2, k, ty)' = Table_get(T2, k, ty)
      ]_vars

\* A key was written into t1 that the default table, holding other entries,
\* does not have.
C5_Witness ==
    /\ opened
    /\ last.op = "insert"
    /\ last.table = "t1"
    /\ ~Table_contains_key(DEFAULT_DEFAULT_TABLE, last.key)
    /\ Table_len(DEFAULT_DEFAULT_TABLE) > 0

\* C6: with k absent in T, get_or_insert(T,k,d1) directly followed by
\* get_or_insert(T,k,d2), d2 # d1 of the same type, returns d1 both times
\* and T then holds one entry for k, with value d1.
C6_FirstWriterWins ==
    [][\A T \in TableNames, k \in Keys, d1 \in Values :
          (/\ last.op = "get_or_insert" /\ last.table = T /\ last.key = k
           /\ last.val = d1 /\ last.pre # "key"
           /\ last'.op = "get_or_insert" /\ last'.table = T /\ last'.key = k
           /\ last'.val.t = d1.t /\ last'.val # d1) =>
              /\ last.res = Ok(d1)
              /\ last'.res = Ok(d1)
              /\ Present(T, k)'
              /\ TableEntries(T)'[k] = serialize(d1)
              /\ Table_len(T)' = Table_len(T)
      ]_vars

\* The keys of T whose bytes decode as type A.
DecodableKeys(T, A) == {k \in Keys : Present(T, k) /\ Decodes(A, Contents[T][k])}

\* C7: values::<A>(T) returns exactly the values of the entries of T whose
\* bytes decode as A, entries::<A>(T) exactly those (key, value) pairs; the
\* other entries are skipped and the scan never returns an error; an entry
\* just inserted is among those of its own type.
C7_TypedFiltering ==
    opened =>
        /\ \A T \in TableNames, A \in Types :
              LET vs == Table_values(T, A)
                  es == Table_entries(T, A)
                  dec == DecodableKeys(T, A)
              IN  /\ vs.kind = "Ok"
                  /\ es.kind = "Ok"
                  /\ es.items = {<<k, deserialize(A, Contents[T][k]).val>> : k \in dec}
                  /\ BagCardinality(vs.items) = Cardinality(dec)
                  /\ \A w \in Values :
                        CopiesIn(w, vs.items) =
                            Cardinality({k \in dec : deserialize(A, Contents[T][k]) = Ok(w)})
        /\ (last.op = "insert") =>
              /\ <<last.key, last.val>> \in Table_entries(last.table, last.val.t).items
              /\ BagIn(last.val, Table_values(last.table, last.val.t).items)

\* A table holds an integer and a string under two keys: each typed scan
\* returns one of the two.
C7_Witness ==
    /\ opened
    /\ \E T \in TableNames :
          /\ Table_len(T) = 2
          /\ BagCardinality(Table_values(T, "String").items) = 1
          /\ BagCardinality(Table_values(T, "i32").items) = 1

\* C8: after close() and open() of the same path the durable Database holds
\* in every table exactly the entries it held at the close and the store
\* lists the same tables; list_tables returns the same set when the default
\* table name at the close was the reserved one (only writes were made).
C8_Durability ==
    (opened /\ last.op = "open" /\ backend = "redb") =>
        /\ Contents = last.snap
        /\ \A T \in TableNames : TableEntries(T) =
              IF T \in DOMAIN last.snap THEN last.snap[T] ELSE EmptyMap
        /\ store_list_tables = DOMAIN last.snap
        /\ (last.table = DEFAULT_DEFAULT_TABLE) =>
              Database_list_tables = {t \in DOMAIN last.snap : t # last.table}

\* A durable Database holding entries in a listed table was closed and
\* opened again.
C8_Witness ==
    /\ opened
    /\ last.op = "open"
    /\ backend = "redb"
    /\ last.table = DEFAULT_DEFAULT_TABLE
    /\ CountEntries(last.snap) >= 2
    /\ "t1" \in DOMAIN last.snap

C10_MissingTable ==
    opened =>
        \A T \in TableNames : (TableEntries(T) = EmptyMap) => ReadsAsEmpty(T)

\* One table does not exist while another exists and is empty.
C10_Witness ==
    /\ opened
    /\ \E T \in TableNames, T2 \in TableNames :
          /\ T \notin DOMAIN Contents
          /\ T2 \in DOMAIN Contents
          /\ Contents[T2] = EmptyMap

\* C11: insert(T,k,v) into a table T that does not exist succeeds with no
\* creation step; afterwards T exists, holds exactly the one entry (k,v) and
\* is listed by the store's list_tables.
C11_ImplicitCreate ==
    (opened /\ last.op = "insert" /\ last.pre = "no_table") =>
        /\ last.res = OkUnit
        /\ last.table \in DOMAIN Contents
        /\ last.table \in store_list_tables
        /\ Contents[last.table] = [x \in {last.key} |-> serialize(last.val)]
        /\ Table_len(last.table) = 1
        /\ Table_keys(last.table) = OkList({last.key})
        /\ Table_contains_key(last.table, last.key)
        /\ Table_entries(last.table, last.val.t) = OkList({<<last.key, last.val>>})

\* The first write to a table has acted while another table held entries.
C11_Witness ==
    /\ opened
    /\ last.op = "insert"
    /\ last.pre = "no_table"
    /\ \E T2 \in TableNames \ {last.table} : Table_len(T2) > 0

\* C12 as stated: the reserved default-table name is never in list_tables().
C12_ReservedNeverListed ==
    opened => DEFAULT_DEFAULT_TABLE \notin Database_list_tables

\* C12, amended: list_tables() never includes the name the Database
\* currently has as its default table, nor a table just written through the
\* Database's own methods, and it includes every other table of the store.
C12_DefaultNotListed ==
    opened =>
        /\ default_table \notin Database_list_tables
        /\ (last.via = "db") => last.table \notin Database_list_tables
        /\ \A T \in TableNames :
              (T # default_table /\ T \in DOMAIN Contents) => T \in Database_list_tables

\* Entries were written through the Database's own insert, the store lists
\* their table, and another table is listed.
C12_Witness ==
    /\ opened
    /\ last.op = "insert"
    /\ last.via = "db"
    /\ last.table \in store_list_tables
    /\ Database_list_tables # {}

\* What a write handle on table T does to the contents of the active backend.
TableInsert(T, k, v) ==
    IF backend = "redb" THEN redb_insert(file, T, k, v) ELSE memory_insert(mem, T, k, v)

TableRemove(T, k) ==
    IF backend = "redb" THEN redb_remove(file, T, k) ELSE memory_remove(mem, T, k)

TableClear(T) ==
    IF backend = "redb" THEN redb_clear(file, T) ELSE memory_clear(mem, T)

\* TableMut::set, delete and reset call insert, remove and clear.
TableMut_set(T, k, v) == TableInsert(T, k, v)

TableMut_delete(T, k) == TableRemove(T, k)

TableMut_reset(T) == TableClear(T)

\* The read methods of the Database return what the same methods of a handle
\* on table T return.
ReadsMirror(T) ==
    /\ \A k \in Keys, ty \in Types : Database_get(k, ty) = Table_get(T, k, ty)
    /\ \A k \in Keys : Database_contains_key(k) = Table_contains_key(T, k)
    /\ \A ty \in Types :
          /\ Database_values(ty) = Table_values(T, ty)
          /\ Database_entries(ty) = Table_entries(T, ty)
    /\ Database_keys = Table_keys(T)
    /\ Database_len = Table_len(T)
    /\ Database_size = Table_size(T)
    /\ Database_is_empty = Table_is_empty(T)

C14_DefaultTableOnly ==
    [][(last'.via = "db" /\ last'.op = "clear") =>
          /\ TableEntries(default_table)' = EmptyMap
          /\ \A T2 \in TableNames \ {default_table} :
                TableEntries(T2)' = TableEntries(T2)
          /\ Database_len = Cardinality(DOMAIN TableEntries(default_table))
          /\ Database_size = Cardinality(DOMAIN TableEntries(default_table))
          /\ Database_len' = 0
          /\ Database_size' = 0
      ]_vars

\* The Database's clear() emptied a default table that held entries while
\* another table holds entries.
C14_Witness ==
    /\ opened
    /\ last.via = "db"
    /\ last.op = "clear"
    /\ last.pre = "entries"
    /\ \E T2 \in TableNames \ {default_table} : Table_len(T2) > 0

\* C15: set_default_table(name) changes no entry of any table; the next
\* top-level call, and every top-level call until the binding is set again,
\* operates on table name.
C15_Rebind ==
    [][/\ (last'.op = "set_default_table") =>
             /\ default_table' = last'.table
             /\ Contents' = Contents
             /\ \A T \in TableNames : TableEntries(T)' = TableEntries(T)
       /\ (last.op = "set_default_table" /\ last'.via = "db") =>
             last'.table = last.table
       /\ (last'.via = "db") => last'.table = default_table
       /\ (default_table' # default_table) =>
             last'.op \in {"set_default_table", "open"}
      ]_vars

\* The default table was rebound to t1 while the reserved table held
\* entries that t1 does not hold.
C15_Witness ==
    /\ opened
    /\ last.op = "set_default_table"
    /\ last.table = "t1"
    /\ default_table = "t1"
    /\ Table_len(DEFAULT_DEFAULT_TABLE) > 0
    /\ TableEntries("t1") # TableEntries(DEFAULT_DEFAULT_TABLE)

\* len(T) added up over the tables in names.
RECURSIVE SumTableLen(_)
SumTableLen(names) ==
    IF names = {} THEN 0
    ELSE LET t == CHOOSE x \in names : TRUE
         IN  Table_len(t) + SumTableLen(names \ {t})

\* C16: len_all_tables() is the sum of len(T) over every table of the store,
\* the default table that list_tables() hides included; size_all_tables()
\* returns the same value.
C16_LenAllTables ==
    opened =>
        /\ Database_len_all_tables = SumTableLen(TableNames)
        /\ Database_len_all_tables = SumTableLen(store_list_tables)
        /\ Database_len_all_tables = Database_len + SumTableLen(Database_list_tables)
        /\ Database_size_all_tables = Database_len_all_tables

\* The default table and a listed table both hold entries.
C16_Witness ==
    /\ opened
    /\ Database_len > 0
    /\ SumTableLen(Database_list_tables) > 0
    /\ Table_len(DEFAULT_DEFAULT_TABLE) > 0

\* C17: after delete_all_tables() list_tables() is empty, len_all_tables()
\* is 0 and every table, the default table included, reads as empty.
C17_DeleteAll ==
    (opened /\ last.op = "delete_all_tables") =>
        /\ last.res = OkUnit
        /\ Database_list_tables = {}
        /\ store_list_tables = {}
        /\ Database_len_all_tables = 0
        /\ Database_len = 0
        /\ \A T \in TableNames : Table_len(T) = 0 /\ ReadsAsEmpty(T)

\* delete_all_tables() acted on a store whose tables held entries.
C17_Witness == opened /\ last.op = "delete_all_tables" /\ last.pre = "entries"

\* C18: get_or(k, d) returns the stored value when k is present and decodes
\* as d's type, the decode error when k is present and does not decode, and
\* d only when k is absent.
C18_GetOrAbsenceOnly ==
    opened =>
        \A T \in TableNames, k \in Keys, d \in Values :
            Table_get_or(T, k, d) =
                IF ~Present(T, k) THEN Ok(d)
                ELSE IF Decodes(d.t, Contents[T][k])
                     THEN Ok(deserialize(d.t, Contents[T][k]).val)
                     ELSE Err

\* C19: get_or, get_or_else and get_or_default return the default (the given
\* value, the thunk's result, the type's default) when get fails or finds no
\* value for the key.
C19_DefaultOnErrorOrMiss ==
    opened =>
        \A T \in TableNames, k \in Keys, d \in Values :
            (Table_get(T, k, d.t).kind \in {"Err", "None"}) =>
                /\ Table_get_or(T, k, d) = Ok(d)
                /\ Table_get_or_else(T, k, d).res = Ok(d)
                /\ Table_get_or_default(T, k, d.t) = Ok(Default(d.t))

\* C20: get_or_else(k, thunk) and get_or_insert_with(k, thunk) invoke the
\* thunk never when k is present and exactly once when k is absent.
C20_LazyDefault ==
    opened =>
        /\ \A T \in TableNames, k \in Keys, d \in Values :
              Table_get_or_else(T, k, d).calls = (IF Present(T, k) THEN 0 ELSE 1)
        /\ (last.op = "get_or_insert") =>
              last.calls = (IF last.pre = "key" THEN 0 ELSE 1)

\* C21: get_or_insert(k, d) on an absent k inserts d and returns it, so
\* that afterwards contains_key(k) is true and get(k) is Some(d); on a k
\* present with a value v that decodes as d's type it returns v and leaves
\* the store unchanged.
C21_GetOrInsertPost ==
    [][(last'.op = "get_or_insert") =>
          \A T \in TableNames, k \in Keys, d \in Values :
              (last'.table = T /\ last'.key = k /\ last'.val = d) =>
                  /\ (~Present(T, k)) =>
                        /\ last'.res = Ok(d)
                        /\ Table_contains_key(T, k)'
                        /\ Table_get(T, k, d.t)' = Some(d)
                  /\ (Present(T, k) /\ Decodes(d.t, Contents[T][k])) =>
                        /\ last'.res = Ok(deserialize(d.t, Contents[T][k]).val)
                        /\ Contents' = Contents
      ]_vars

C23_RedbClearDeletesTable ==
    (opened /\ backend = "redb" /\ last.op = "clear") =>
        /\ last.res = OkUnit
        /\ last.table \notin store_list_tables
        /\ last.table \notin Database_list_tables
        /\ last.table \notin DOMAIN file
        /\ ReadsAsEmpty(last.table)

\* A table of the durable backend that held entries was cleared while
\* another table exists.
C23_Witness ==
    /\ opened
    /\ backend = "redb"
    /\ last.op = "clear"
    /\ last.pre = "entries"
    /\ store_list_tables # {}

\* C24: the same sequence of calls on a durable and on a volatile Database
\* gives the same result of every call and of every read, lists compared as
\* sets; list_tables, which clear(T) makes differ, is left out.
C24_BackendEquivalence ==
    /\ last.res = last.resm
    /\ \A T \in TableNames :
          /\ redb_keys(file, T) = memory_keys(mem, T)
          /\ redb_len(file, T) = memory_len(mem, T)
          /\ \A k \in Keys :
                /\ redb_contains_key(file, T, k) = memory_contains_key(mem, T, k)
                /\ \A ty \in Types :
                      redb_get(file, T, k, ty) = memory_get(mem, T, k, ty)
          /\ \A ty \in Types :
                /\ redb_values(file, T, ty) = memory_values(mem, T, ty)
                /\ redb_entries(file, T, ty) = memory_entries(mem, T, ty)
    /\ redb_len_all_tables(file) = memory_len_all_tables(mem)

\* C25: every read method of a TableMut handle returns what the same method
\* of a Table handle on the same table returns (the reads are state
\* functions: none changes the store).
C25_TableMutReads ==
    opened =>
        \A T \in TableNames :
            /\ TableMut_keys(T) = Table_keys(T)
            /\ TableMut_len(T) = Table_len(T)
            /\ TableMut_size(T) = Table_size(T)
            /\ TableMut_is_empty(T) = Table_is_empty(T)
            /\ \A ty \in Types :
                  /\ TableMut_values(T, ty) = Table_values(T, ty)
                  /\ TableMut_entries(T, ty) = Table_entries(T, ty)
            /\ \A k \in Keys :
                  /\ TableMut_contains_key(T, k) = Table_contains_key(T, k)
                  /\ TableMut_contains(T, k) = Table_contains(T, k)
                  /\ TableMut_has(T, k) = Table_has(T, k)
                  /\ \A ty \in Types :
                        /\ TableMut_get(T, k, ty) = Table_get(T, k, ty)
                        /\ TableMut_get_or_default(T, k, ty) =
                              Table_get_or_default(T, k, ty)
                  /\ \A d \in Values :
                        /\ TableMut_get_or(T, k, d) = Table_get_or(T, k, d)
                        /\ TableMut_get_or_else(T, k, d) = Table_get_or_else(T, k, d)

\* Two tables hold entries under different keys, so that a handle on the
\* wrong table would read something else.
C25_Witness ==
    /\ opened
    /\ Table_len("t1") > 0
    /\ Table_len(DEFAULT_DEFAULT_TABLE) > 0
    /\ Table_keys("t1") # Table_keys(DEFAULT_DEFAULT_TABLE)

\* C26: set, delete and reset have the effect on the store of insert,
\* remove and clear; size returns what len returns; contains and has return
\* what contains_key returns; in every state, for every table and argument.
C26_Aliases ==
    opened =>
        \A T \in TableNames :
            /\ Table_size(T) = Table_len(T)
            /\ TableMut_reset(T) = TableClear(T)
            /\ \A k \in Keys :
                  /\ Table_contains(T, k) = Table_contains_key(T, k)
                  /\ Table_has(T, k) = Table_contains_key(T, k)
                  /\ TableMut_delete(T, k) = TableRemove(T, k)
                  /\ \A v \in Values : TableMut_set(T, k, v) = TableInsert(T, k, v)

\* A key is present whose value is not a string.
C26_Witness ==
    /\ opened
    /\ \E T \in TableNames, k \in Keys :
          /\ Table_has(T, k)
          /\ Table_contains(T, k)
          /\ ~Decodes("String", Contents[T][k])

\* C27: for every table, keys lists each stored key whatever the type of
\* its value, so |keys| = len = size; for every type X the scans values::<X>
\* and entries::<X>  have the same length, at most len; is_empty is true
\* exactly when len = 0.
C27_SizeViews ==
    opened =>
        \A T \in TableNames :
            /\ Table_keys(T).items = DOMAIN TableEntries(T)
            /\ Cardinality(Table_keys(T).items) = Table_len(T)
            /\ Table_size(T) = Table_len(T)
            /\ Table_is_empty(T) <=> (Table_len(T) = 0)
            /\ \A X \in Types :
                  /\ BagCardinality(Table_values(T, X).items) =
                        Cardinality(Table_entries(T, X).items)
                  /\ Table_len(T) >= BagCardinality(Table_values(T, X).items)

\* A table holds two entries of which only one reads as a string.
C27_Witness ==
    /\ opened
    /\ \E T \in TableNames :
          /\ Table_len(T) = 2
          /\ Cardinality(Table_entries(T, "String").items) = 1
          /\ ~Table_is_empty(T)

\* C28: contains_key(T,k) is false on a fresh Database, true after
\* insert(T,k,v) whatever the type of v, false after remove(T,k) and after
\* clear(T); in every state it is true exactly when k is among keys(T).
C28_ContainsKey ==
    opened =>
        /\ \A T \in TableNames, k \in Keys :
              Table_contains_key(T, k) <=> (k \in Table_keys(T).items)
        /\ (last.op = "new") =>
              \A T \in TableNames, k \in Keys : ~Table_contains_key(T, k)
        /\ (last.op = "insert") => Table_contains_key(last.table, last.key)
        /\ (last.op = "remove") => ~Table_contains_key(last.table, last.key)
        /\ (last.op = "clear") =>
              \A k \in Keys : ~Table_contains_key(last.table, k)

\* A unit value was inserted into a table of the durable backend.
C28_Witness ==
    /\ opened
    /\ backend = "redb"
    /\ last.op = "insert"
    /\ last.val = UnitVal
    /\ Table_contains_key(last.table, last.key)

\* C29: insert(T,k,v2) on a key that holds a value replaces it: len(T) and
\* keys(T) are unchanged, k is among the keys, and get(T,k) with v2's type
\* returns Some(v2).
C29_KeysUnique ==
    [][(last'.op = "insert" /\ last'.pre = "key") =>
          \A T \in TableNames, k \in Keys, v2 \in Values :
              (last'.table = T /\ last'.key = k /\ last'.val = v2) =>
                  /\ Table_len(T)' = Table_len(T)
                  /\ Table_keys(T)' = Table_keys(T)
                  /\ k \in Table_keys(T)'.items
                  /\ Table_get(T, k, v2.t)' = Some(v2)
      ]_vars

\* C30: a value written as UserV1 {name, pass} is read as UserV2 {username
\* (named "name" on the wire), role}: the stored pass is ignored, username is
\* the stored name and role is the declared default; a value written as
\* UserV2 is read back with the role it was written with.
C30_SchemaEvolution ==
    (opened /\ last.op = "insert") =>
        /\ (last.val.t = "UserV1") =>
              Table_get(last.table, last.key, "UserV2") =
                  Some(UserV2(last.val.p[1], exiting_user_default_role))
        /\ (last.val.t = "UserV2") =>
              Table_get(last.table, last.key, "UserV2") = Some(last.val)

\* A UserV1 was written on the durable backend next to a UserV2 whose role
\* is not the default of the field.
C30_Witness ==
    /\ opened
    /\ backend = "redb"
    /\ last.op = "insert"
    /\ last.val.t = "UserV1"
    /\ \E k \in Keys, n \in UserNames :
          Table_get(last.table, k, "UserV2") = Some(UserV2(n, Guest))

\* C34: get_or_insert never overwrites an existing entry: when key k is
\* present and its stored bytes do not decode as the type of d,
\* get_or_insert(k, d) returns the decode error, does not invoke the thunk
\* and leaves the contents of both stores as they were.
C34_NoOverwriteOnDecodeError ==
    [][(last'.op = "get_or_insert") =>
          \A T \in TableNames, k \in Keys, d \in Values :
              (/\ last'.table = T /\ last'.key = k /\ last'.val = d
               /\ Present(T, k)
               /\ ~Decodes(d.t, Contents[T][k])) =>
                  /\ last'.res = Err
                  /\ last'.calls = 0
                  /\ file' = file
                  /\ mem' = mem
      ]_vars

\* C36: only insert creates a table: a remove or a clear that found no
\* table T leaves the set of tables returned by list_tables() as it was.
C36_OnlyInsertCreates ==
    [][(last'.op \in {"remove", "clear"} /\ last'.pre = "no_table") =>
          Database_list_tables' = Database_list_tables
      ]_vars

\* C37: right after set_default_table(n), list_tables() omits n, and it
\* returns the name that was bound before (a name other than n, the reserved
\* initial name included) whenever the store has a table of that name.
C37_ListFiltersCurrentDefault ==
    [][(last'.op = "set_default_table") =>
          /\ default_table' = last'.table
          /\ default_table' \notin Database_list_tables'
          /\ \A p \in {default_table, DEFAULT_DEFAULT_TABLE} :
                (p # default_table' /\ p \in store_list_tables') =>
                    p \in Database_list_tables'
      ]_vars

\* The default table was rebound to a user table that holds entries: the
\* store lists it, list_tables() does not, and list_tables() returns the
\* reserved name.
C37_Witness ==
    /\ opened
    /\ last.op = "set_default_table"
    /\ last.table \in UserTables
    /\ TableEntries(last.table) # EmptyMap
    /\ last.table \in store_list_tables
    /\ last.table \notin Database_list_tables
    /\ DEFAULT_DEFAULT_TABLE \in Database_list_tables

\* C38: whenever contains_key(T,k) is true and the stored bytes decode as
\* the requested type, get(T,k) returns Some of the decoded value and never
\* None, for the nil-encoded values (unit, an optional holding None) too.
C38_GetSomeWhenPresent ==
    opened =>
        \A T \in TableNames, k \in Keys, ty \in Types :
            (Table_contains_key(T, k) /\ Decodes(ty, TableEntries(T)[k])) =>
                /\ Table_get(T, k, ty) # None
                /\ Table_get(T, k, ty) = Some(deserialize(ty, TableEntries(T)[k]).val)

\* C33: the read operations have no effect: a step of get, keys, values,
\* entries, len, is_empty, contains_key, get_or, get_or_else,
\* get_or_default, list_tables or len_all_tables leaves the entries of every
\* table and the set of existing tables as they were, also when the table
\* read does not exist and when get returns a decode error.
C33_ReadsNoEffect ==
    [][(last'.op \in
          {"get", "keys", "values", "entries", "len", "is_empty", "contains_key",
           "get_or", "get_or_else", "get_or_default", "list_tables",
           "len_all_tables"}) =>
          /\ store_list_tables' = store_list_tables
          /\ \A T \in TableNames : TableEntries(T)' = TableEntries(T)
          /\ file' = file
          /\ mem' = mem
      ]_vars

\* A get returned a decode error for a key that is there, while the other
\* table, read or not, does not exist.
C33_Witness ==
    /\ opened
    /\ last.op = "get"
    /\ last.res = Err
    /\ Present(last.table, last.key)
    /\ \E T \in TableNames : T \notin DOMAIN Contents

\* C31: get_or_insert is a read followed by a separate write: when its read
\* found nothing, the call completes with its insert whatever another
\* writer has inserted under the key in between; it returns d without an
\* error, and the table then has one entry for k, which holds d (the other
\* writer's value is lost).
C31_LaterWriteWins ==
    [][(last.pc = "read" /\ last'.pc = "done") =>
          \A T \in TableNames, k \in Keys, d \in Values :
              (last.table = T /\ last.key = k /\ last.val = d) =>
                  /\ last'.res = Ok(d)
                  /\ Table_contains_key(T, k)'
                  /\ TableEntries(T)'[k] = serialize(d)
                  /\ {e \in Table_entries(T, d.t).items' : e[1] = k} = {<<k, d>>}
      ]_vars

\* A get_or_insert has returned d after another writer had inserted a value
\* of other bytes under its key between its read and its write.
C31_Witness ==
    /\ opened
    /\ last.op = "get_or_insert"
    /\ last.pc = "done"
    /\ last.raced # NoVal
    /\ serialize(last.raced) # serialize(last.val)
    /\ last.res = Ok(last.val)
    /\ TableEntries(last.table)[last.key] = serialize(last.val)

\* C32: a write of the durable backend is all or nothing: an insert,
\* remove, clear or delete_all_tables that fails at the begin of its
\* transaction, at the opening of its table, at its change or at its commit
\* returns the error, and the file, the tables it lists and what they hold
\* are as before; a failed delete_all_tables deletes no table.
C32_AllOrNothing ==
    [][(/\ backend = "redb"
        /\ last'.op \in {"insert", "remove", "clear", "delete_all_tables"}
        /\ (last'.fault # "none" \/ last'.res = Err)) =>
          /\ last'.res = Err
          /\ file' = file
          /\ store_list_tables' = store_list_tables
          /\ \A T \in TableNames : TableEntries(T)' = TableEntries(T)
      ]_vars

\* A delete_all_tables of the durable backend failed at a delete_table, and
\* the two tables and an entry are there.
C32_Witness ==
    /\ opened
    /\ backend = "redb"
    /\ last.op = "delete_all_tables"
    /\ last.fault = "change"
    /\ last.res = Err
    /\ DOMAIN file = TableNames
    /\ CountEntries(file) > 0

\* C35: an insert that fails because its value does not serialize returns
\* the error and changes nothing: no entry is added or changed and the set
\* of existing tables is as before, on both backends.
C35_FailedInsertNoEffect ==
    [][(last'.op = "insert" /\ last'.val = Unserializable) =>
          /\ last'.res = Err
          /\ store_list_tables' = store_list_tables
          /\ file' = file
          /\ mem' = mem
      ]_vars

====
